---- MODULE Spec2Model ----
\* A model of the NIMA result pipeline: the output parser and batch writer of
\* parse_results.py, the single-image writer of predict_script.py, the loader
\* and renderer of visualize_results.py and the two coordinators
\* (parse_results.main, run_assessment.main).
\*
\* Abstractions: a line of tool output is the triple of what the three regular
\* expressions of parse_results capture in it; a file name is its base and its
\* extension; a JSON document is a function from its keys to its values; floats
\* are counted in tenths.
\*
\* Four specifications: SpecStream runs the tool process against the output
\* loop of run_assessment.run_assessment, one write and one readline at a time,
\* with pipes that hold PipeCapacity lines; SpecParse runs parse_results on every text of up to
\* MaxLines lines; SpecStore calls save_results, predict_script, load_results
\* and visualize_results.py on one results directory; SpecPipeline runs the two
\* coordinators from their start to their exit. The image directory and
\* visualize_results.py are taken to exist, and images decode.
EXTENDS Integers, Sequences, FiniteSets, TLC

VARIABLES
    prog,            \* the program that was launched
    pc,              \* its position
    exit_status,     \* its exit status, -1 while it runs
    output,          \* the tool's captured standard output, a sequence of lines
    idx,             \* parse_results: the next line of output
    current_image,   \* parse_results: last announced image, NoImage while unset
    current_model,   \* parse_results: last header's variant, NoWord while unset
    results,         \* parse_results: image -> (variant -> scores)
    store,           \* the results directory: file name -> contents, *.json
    artifacts,       \* the results directory: the *.png files
    image_files,     \* the image directory: the image files in it
    model_type,      \* --model-type
    skip_viz,        \* --skip-visualization
    tool,            \* the assess_images.sh process: "not run", "running",
                     \* "exited", "not found"
    return_code,     \* its return code once it exited
    script,          \* the writes the running tool has left: "out", "err"
    stdout_pipe,     \* lines in the pipe of the tool's standard output
    stderr_pipe,     \* lines in the pipe of the tool's standard error
    loaded,          \* load_results: image -> (variant -> scores)
    viz_status,      \* exit status of the visualize_results.py run, -1 before
    last_write,      \* history: the <<image, variant, scores>> of the last write
    calls            \* history: the number of predict_script runs so far

vars == <<prog, pc, exit_status, output, idx, current_image, current_model,
          results, store, artifacts, image_files, model_type, skip_viz,
          tool, return_code, script, stdout_pipe, stderr_pipe, loaded,
          viz_status, last_write, calls>>

parserVars == <<output, idx, current_image, current_model, results>>
dirVars == <<store, artifacts, image_files>>
vizVars == <<loaded, viz_status>>
histVars == <<last_write, calls>>
pipeVars == <<script, stdout_pipe, stderr_pipe>>
toolVars == <<skip_viz, tool, return_code, pipeVars>>

\* ---------------------------------------------------------------- bounds

MaxLines == 5
MaxCalls == 2
MaxToolWrites == 4
PipeCapacity == 2

\* ---------------------------------------------------------------- values

\* A word that is unset: None, or a pattern that captured nothing. The patterns
\* capture one character at least, so a captured word is never "".
NoWord == ""

\* The empty dict.
EmptyMap == [k \in {} |-> 0]

\* d[k] = v on a dict.
Put(d, k, v) == [x \in DOMAIN d \cup {k} |-> IF x = k THEN v ELSE d[x]]

\* File names, as os.path.splitext takes them apart.
Name(b, e) == [base |-> b, ext |-> e]
a_jpg == Name("a", ".jpg")
a_png == Name("a", ".png")
b_jpg == Name("b", ".jpg")
\* An image name that is unset, as NoWord.
NoImage == Name("", "")

splitext0(name) == name.base

\* A header branch that forgets .lower().
lower_kept(w) == w

\* str.lower on the words a header can carry.
lower(w) ==
    CASE w = "Aesthetic" -> "aesthetic"
      [] w = "AESTHETIC" -> "aesthetic"
      [] w = "Technical" -> "technical"
      [] OTHER -> w

\* str.strip on the tokens of a payload.
strip(t) ==
    CASE t = " 0.1" -> "0.1"
      [] t = " 0.2" -> "0.2"
      [] t = " " -> ""
      [] OTHER -> t

\* float() accepts a token or raises ValueError.
IsFloat(s) == s \in {"0.1", "0.2", "0.10", ".1"}

\* float(), in tenths.
float(s) ==
    CASE s = "0.1" -> 1
      [] s = "0.10" -> 1
      [] s = ".1" -> 1
      [] s = "0.2" -> 2

\* ---------------------------------------------------------------- tool output

\* What score_pattern, image_pattern and model_pattern capture in a line:
\* score is the captured text split at the commas, <<>> when there is no match.
Line(m, i, s) == [model |-> m, image |-> i, score |-> s]

FullPayload == [i \in 1..10 |-> IF i = 1 THEN "0.2" ELSE " 0.1"]
ShortPayload == <<"0.1", " 0.2", ".1">>
BadPayload == [i \in 1..10 |-> IF i = 3 THEN " " ELSE "0.10"]

HeaderLines == {Line(w, NoImage, <<>>) : w \in {"Aesthetic", "technical"}}
ImageLines == {Line(NoWord, n, <<>>) : n \in {a_jpg, b_jpg}}
ScoreLines == {Line(NoWord, NoImage, p) : p \in {FullPayload, ShortPayload, BadPayload}}
\* a line that announces an image and carries a payload as well (a line that
\* no pattern matches is passed over as a payload met before any header is)
OtherLines == {Line(NoWord, a_jpg, FullPayload)}

Lines == HeaderLines \cup ImageLines \cup ScoreLines \cup OtherLines

Texts(n) == UNION {[1..k -> Lines] : k \in 0..n}

\* ---------------------------------------------------------------- parse_results

\* score_str.split(',') with float(s.strip()) on every token: the list, or
\* ValueError at the first token float() rejects.
ScoresRaise(payload) == \E i \in 1..Len(payload) : ~IsFloat(strip(payload[i]))

Scores(payload) == [i \in 1..Len(payload) |-> float(strip(payload[i]))]

\* results[current_image][current_model] = scores on the defaultdict(dict).
Record(res, image, model, scores) ==
    Put(res, image,
        Put(IF image \in DOMAIN res THEN res[image] ELSE EmptyMap, model, scores))

\* A guard that forgets current_model.
ShouldRecord_image_only(line, image, model) ==
    line.score # <<>> /\ image # NoImage

\* if score_match and current_image and current_model
ShouldRecord(line, image, model) ==
    line.score # <<>> /\ image # NoImage /\ model # NoWord

\* One iteration of the loop over output_text.split('\n').
ParseLine ==
    /\ pc = "parse"
    /\ idx <= Len(output)
    /\ LET line == output[idx] IN
       IF line.model # NoWord
       THEN /\ current_model' = lower(line.model)
            /\ idx' = idx + 1
            /\ UNCHANGED <<pc, exit_status, current_image, results>>
       ELSE IF line.image # NoImage
       THEN /\ current_image' = line.image
            /\ idx' = idx + 1
            /\ UNCHANGED <<pc, exit_status, current_model, results>>
       ELSE IF ShouldRecord(line, current_image, current_model)
       THEN IF ScoresRaise(line.score)
            THEN \* ValueError leaves parse_results and nothing catches it:
                 \* the interpreter exits with status 1
                 /\ pc' = "raised"
                 /\ exit_status' = 1
                 /\ UNCHANGED <<idx, current_image, current_model, results>>
            ELSE /\ results' = Record(results, current_image, current_model,
                                      Scores(line.score))
                 /\ idx' = idx + 1
                 /\ UNCHANGED <<pc, exit_status, current_image, current_model>>
       ELSE /\ idx' = idx + 1
            /\ UNCHANGED <<pc, exit_status, current_image, current_model, results>>
    /\ UNCHANGED <<prog, output, dirVars, model_type, toolVars, vizVars, histVars>>

\* The loop is over: return results.
ParseReturn ==
    /\ pc = "parse"
    /\ idx > Len(output)
    /\ pc' = "parsed"
    /\ UNCHANGED <<prog, exit_status, parserVars, dirVars, model_type, toolVars,
                   vizVars, histVars>>

\* ---------------------------------------------------------------- parser alone

InitParse ==
    /\ prog = "parse_results.parse_results"
    /\ pc = "parse"
    /\ exit_status = -1
    /\ output \in Texts(MaxLines)
    /\ idx = 1
    /\ current_image = NoImage
    /\ current_model = NoWord
    /\ results = EmptyMap
    /\ store = EmptyMap
    /\ artifacts = {}
    /\ image_files = {}
    /\ model_type = "both"
    /\ skip_viz = FALSE
    /\ tool = "not run"
    /\ return_code = 0
    /\ script = <<>>
    /\ stdout_pipe = 0
    /\ stderr_pipe = 0
    /\ loaded = EmptyMap
    /\ viz_status = -1
    /\ last_write = {}
    /\ calls = 0

NextParse == ParseLine \/ ParseReturn

SpecParse == InitParse /\ [][NextParse]_vars

\* ---------------------------------------------------------------- parser claims

\* The three kinds of line of spec 4.1, first match wins.
IsHeader(l) == l.model # NoWord
IsAnnouncement(l) == l.model = NoWord /\ l.image # NoImage
IsDistribution(l) == l.model = NoWord /\ l.image = NoImage /\ l.score # <<>>

\* The variant a header word names.
VariantNamed(w) ==
    IF w \in {"Aesthetic", "AESTHETIC", "aesthetic"} THEN "aesthetic"
    ELSE IF w \in {"Technical", "technical"} THEN "technical"
    ELSE w

\* The last line before line i of text that is of kind K, 0 when there is none.
LastBefore(text, i, K(_)) ==
    LET S == {j \in 1..(i - 1) : K(text[j])}
    IN IF S = {} THEN 0 ELSE CHOOSE j \in S : \A k \in S : k <= j

ImageBefore(text, i) ==
    LET j == LastBefore(text, i, IsAnnouncement)
    IN IF j = 0 THEN NoImage ELSE text[j].image

VariantBefore(text, i) ==
    LET j == LastBefore(text, i, IsHeader)
    IN IF j = 0 THEN NoWord ELSE VariantNamed(text[j].model)

\* Line i of text is a distribution line with an image and a variant before it.
Attributed(text, i) ==
    /\ IsDistribution(text[i])
    /\ ImageBefore(text, i) # NoImage
    /\ VariantBefore(text, i) # NoWord

\* res is what the first n lines of text record: every attributed line is
\* recorded under the image and the variant before it, the last one winning,
\* and nothing else is recorded.
Attribution(text, n, res) ==
    /\ \A i \in 1..n : Attributed(text, i) =>
          /\ ImageBefore(text, i) \in DOMAIN res
          /\ VariantBefore(text, i) \in DOMAIN res[ImageBefore(text, i)]
    /\ \A img \in DOMAIN res : \A v \in DOMAIN res[img] :
          \E i \in 1..n :
             /\ Attributed(text, i)
             /\ ImageBefore(text, i) = img
             /\ VariantBefore(text, i) = v
             /\ res[img][v] = Scores(text[i].score)
             /\ \A j \in (i + 1)..n :
                   ~(/\ Attributed(text, j)
                     /\ ImageBefore(text, j) = img
                     /\ VariantBefore(text, j) = v)

\* A payload of exactly 10 numeric tokens.
WellFormed(payload) ==
    /\ Len(payload) = 10
    /\ \A i \in 1..Len(payload) : strip(payload[i]) \in {"0.1", "0.2", "0.10", ".1"}

Malformed(l) == IsDistribution(l) /\ ~WellFormed(l.score)

\* text without the lines of kind K.
Without(text, K(_)) ==
    LET keep == {i \in 1..Len(text) : ~K(text[i])}
        nth[k \in 0..Len(text)] ==
            IF k = 0 THEN 0
            ELSE CHOOSE i \in keep : i > nth[k - 1] /\ \A j \in keep : j > nth[k - 1] => i <= j
    IN [k \in 1..Cardinality(keep) |-> text[nth[k]]]

\* C1: a distribution line met with current_image and current_model set whose
\* payload is not exactly 10 numeric tokens records nothing and leaves the
\* records alone while parsing goes on to the next line, and the parse returns
\* what it would return on the text without the malformed lines.
C1_MalformedDropped ==
    /\ [][(/\ pc = "parse"
           /\ idx <= Len(output)
           /\ Malformed(output[idx])
           /\ current_image # NoImage
           /\ current_model # NoWord)
          => (results' = results /\ pc' = "parse" /\ idx' = idx + 1)]_vars
    /\ [](pc \in {"parsed", "raised"} =>
             /\ pc = "parsed"
             /\ LET clean == Without(output, Malformed)
                IN Attribution(clean, Len(clean), results))

\* C7: every recorded distribution is stored under the image of the last
\* announcement before its line and the lower-cased variant of the last header
\* before its line, and every distribution line with both before it is recorded.
C7_Attribution == pc \in {"parse", "parsed", "raised"} => Attribution(output, idx - 1, results)

\* C7's case: one header, two announcements, both images recorded under the
\* header's variant.
C7_Witness ==
    /\ pc = "parsed"
    /\ Cardinality({i \in 1..Len(output) : IsHeader(output[i])}) = 1
    /\ {a_jpg, b_jpg} \subseteq DOMAIN results
    /\ DOMAIN results[a_jpg] = {"aesthetic"}
    /\ DOMAIN results[b_jpg] = {"aesthetic"}

\* C8: a distribution line met while current_image or current_model is unset
\* records nothing and raises nothing, whatever its payload, and a text of
\* distribution lines alone parses to the empty mapping.
C8_UnsetDropped ==
    /\ [][(/\ pc = "parse"
           /\ idx <= Len(output)
           /\ IsDistribution(output[idx])
           /\ (current_image = NoImage \/ current_model = NoWord))
          => (results' = results /\ pc' = "parse" /\ idx' = idx + 1)]_vars
    /\ []((\A i \in 1..Len(output) : IsDistribution(output[i])) =>
             /\ pc # "raised"
             /\ results = EmptyMap)

\* C8's case: an image is announced, no header was seen, and a distribution
\* line whose payload float() rejects has been passed; another such line came
\* first of all.
C8_Witness ==
    /\ pc = "parsed"
    /\ Len(output) = 3
    /\ output[1] = Line(NoWord, NoImage, ShortPayload)
    /\ IsAnnouncement(output[2])
    /\ output[3] = Line(NoWord, NoImage, BadPayload)
    /\ results = EmptyMap

\* ---------------------------------------------------------------- result store

\* The 10-bucket distributions the writers are given, in tenths.
D1 == [i \in 1..10 |-> 1]
D2 == [i \in 1..10 |-> IF i = 5 THEN 10 ELSE 0]

\* A file of the results directory.
File(b, t) == [base |-> b, tail |-> t]

\* json.dump: the document as text; json.load gives back what was dumped, and
\* raises JSONDecodeError on text that is no JSON.
JsonDump(obj) == [valid |-> TRUE, data |-> obj]
NotJson == [valid |-> FALSE, data |-> EmptyMap]

\* f"{os.path.splitext(image)[0]}_scores.json"
BatchFile(image) == File(splitext0(image), "_scores.json")

\* The images of res that are written last among those of their file:
\* results.items() is walked in insertion order and a later image replaces the
\* file an earlier one was given.
LastWriters(res) ==
    {w \in [{BatchFile(i) : i \in DOMAIN res} -> DOMAIN res] :
        \A f \in DOMAIN w : BatchFile(w[f]) = f}

\* save_results: one json.dump(models) per image of res; the directories it can
\* leave.
SaveOutcomes(st, res) ==
    {[f \in DOMAIN st \cup DOMAIN w |->
         IF f \in DOMAIN w THEN JsonDump(res[w[f]]) ELSE st[f]] : w \in LastWriters(res)}

\* The <<image, variant, scores>> of a parser result.
Triples(res) == UNION {{<<i, v, res[i][v]>> : v \in DOMAIN res[i]} : i \in DOMAIN res}

\* A call of save_results(results).
SaveResults ==
    /\ prog = "store"
    /\ pc = "idle"
    /\ store' \in SaveOutcomes(store, results)
    /\ pc' = "saved"
    /\ last_write' = Triples(results)
    /\ UNCHANGED <<prog, exit_status, parserVars, artifacts, image_files,
                   model_type, toolVars, vizVars, calls>>

\* np.sum(scores * np.arange(1, 11))
mean_score(scores) ==
    LET sum[i \in 0..Len(scores)] == IF i = 0 THEN 0 ELSE sum[i - 1] + i * scores[i]
    IN sum[Len(scores)]

\* f"{output_dir}/{base_filename}_{args.model_type}_results.json"
SingleFile(image, mtype) ==
    File(splitext0(image),
         CASE mtype = "aesthetic" -> "_aesthetic_results.json"
           [] mtype = "technical" -> "_technical_results.json"
           [] OTHER -> "_other_results.json")

\* The document predict_script writes.
SingleDoc(image, mtype, scores) ==
    [image |-> image, model_type |-> mtype, mean_score |-> mean_score(scores),
     scores |-> scores]

\* predict_script.main, from the prediction on: the directory it leaves.
PredictWrite(st, image, mtype, scores) ==
    Put(st, SingleFile(image, mtype), JsonDump(SingleDoc(image, mtype, scores)))

\* A run of predict_script.
PredictMain ==
    /\ prog = "store"
    /\ pc \in {"idle", "saved"}
    /\ calls < MaxCalls
    /\ \E image \in {a_jpg, a_png, b_jpg}, mtype \in {"aesthetic", "technical"},
          scores \in {D1, D2} :
          /\ store' = PredictWrite(store, image, mtype, scores)
          /\ last_write' = {<<image, mtype, scores>>}
    /\ calls' = calls + 1
    /\ UNCHANGED <<prog, pc, exit_status, parserVars, artifacts, image_files,
                   model_type, toolVars, vizVars>>

\* ---------------------------------------------------------------- load_results

HasKey(content, k) == k \in DOMAIN content.data

\* The file passes the test of line 42: the filter is 'both', or the document's
\* model_type is the filter.
Matches(content, mtype) == mtype = "both" \/ content.data.model_type = mtype

\* The loop raises on this file: JSONDecodeError from json.load, or KeyError
\* from data['model_type'], data['image'] or data['scores'].
FileRaises(content, mtype) ==
    \/ ~content.valid
    \/ mtype # "both" /\ ~HasKey(content, "model_type")
    \/ /\ Matches(content, mtype)
       /\ ~(HasKey(content, "image") /\ HasKey(content, "model_type")
                                      /\ HasKey(content, "scores"))

LoadRaises(st, mtype) == \E f \in DOMAIN st : FileRaises(st[f], mtype)

\* The files whose scores are added to results.
Added(st, mtype) == {f \in DOMAIN st : Matches(st[f], mtype)}

\* A loop that makes the image's entry before it tests the model type.
LoadedImages_before_test(st, mtype) == {st[f].data.image : f \in DOMAIN st}

\* The images that get an entry in results.
LoadedImages(st, mtype) == {st[f].data.image : f \in Added(st, mtype)}

\* The mappings load_results can return when no file raises: glob gives the
\* files in an order of its own, and of two files of one image and one
\* model_type the later one stays.
LoadOutcomes(st, mtype) ==
    LET keys(img) == {st[f].data.model_type :
                         f \in {g \in Added(st, mtype) : st[g].data.image = img}}
        vals(img, k) == {st[f].data.scores :
                            f \in {g \in Added(st, mtype) :
                                      /\ st[g].data.image = img
                                      /\ st[g].data.model_type = k}}
        entries(img) == {e \in [keys(img) -> UNION {vals(img, k) : k \in keys(img)}] :
                            \A k \in keys(img) : e[k] \in vals(img, k)}
        imgs == LoadedImages(st, mtype)
    IN {m \in [imgs -> UNION {entries(i) : i \in imgs}] : \A i \in imgs : m[i] \in entries(i)}

\* A call of load_results(results_dir, mtype).
LoadResults ==
    /\ prog = "store"
    /\ pc \in {"idle", "saved"}
    /\ \E mtype \in {"aesthetic", "technical", "both"} :
          /\ model_type' = mtype
          /\ IF LoadRaises(store, mtype)
             THEN /\ pc' = "raised"
                  /\ exit_status' = 1
                  /\ UNCHANGED loaded
             ELSE /\ pc' = "loaded"
                  /\ loaded' \in LoadOutcomes(store, mtype)
                  /\ UNCHANGED exit_status
    /\ UNCHANGED <<prog, parserVars, dirVars, toolVars, viz_status, histVars>>

\* ---------------------------------------------------------------- visualize_results.main

\* os.path.join(output_dir, f"{splitext(basename(image_path))[0]}_scores.png")
ArtifactFile(image) == File(splitext0(image), "_scores.png")

\* plot_score_distribution raises ValueError on scores that are not 10 long
\* (score_array * np.arange(1, 11)); visualize_image plots the aesthetic and
\* the technical scores that are not None.
Unplottable(entry) ==
    \E k \in DOMAIN entry \cap {"aesthetic", "technical"} : Len(entry[k]) # 10

\* An image whose file is missing is passed over with a warning.
Rendered(res, imgs) == DOMAIN res \cap imgs

\* The loop of main over results.items(): visualize_image saves one figure per
\* image whose file exists, whatever scores it was given; an exception ends the
\* run after the figures saved before it.
RenderOutcomes(res, arts, imgs) ==
    LET found == Rendered(res, imgs)
        bad == {i \in found : Unplottable(res[i])}
    IN IF bad = {}
       THEN {[exit |-> 0, artifacts |-> arts \cup {ArtifactFile(i) : i \in found}]}
       ELSE {[exit |-> 1, artifacts |-> arts \cup {ArtifactFile(i) : i \in S}] :
                S \in SUBSET (found \ bad)}

\* A run of visualize_results.py: what it loaded, the figures in the results
\* directory after it and its exit status. The image directory exists.
VizRuns(st, arts, imgs, mtype) ==
    IF LoadRaises(st, mtype)
    THEN {[exit |-> 1, loaded |-> EmptyMap, artifacts |-> arts]}
    ELSE UNION {IF res = EmptyMap
                THEN {[exit |-> 1, loaded |-> res, artifacts |-> arts]}
                ELSE {[exit |-> r.exit, loaded |-> res, artifacts |-> r.artifacts] :
                         r \in RenderOutcomes(res, arts, imgs)} :
                res \in LoadOutcomes(st, mtype)}

\* python3 visualize_results.py --model-type=mtype
VisualizeMain ==
    /\ prog = "store"
    /\ pc \in {"idle", "saved"}
    /\ \E mtype \in {"aesthetic", "technical", "both"} :
          /\ model_type' = mtype
          /\ \E r \in VizRuns(store, artifacts, image_files, mtype) :
                /\ loaded' = r.loaded
                /\ artifacts' = r.artifacts
                /\ exit_status' = r.exit
    /\ pc' = "exited"
    /\ UNCHANGED <<prog, parserVars, store, image_files, toolVars, viz_status,
                   histVars>>

\* ---------------------------------------------------------------- store alone

\* Parser results handed to save_results.
BatchInputs ==
    LET models(i) == IF i = a_jpg THEN Put(Put(EmptyMap, "aesthetic", D1), "technical", D2)
                     ELSE IF i = a_png THEN Put(EmptyMap, "aesthetic", D2)
                     ELSE Put(EmptyMap, "technical", D1)
    IN {[i \in S |-> models(i)] : S \in SUBSET {a_jpg, a_png, b_jpg} \ {{}}}

\* Files found in the results directory that neither writer left there: text
\* that is no JSON, a document without scores, a document of another variant.
ForeignFiles ==
    {EmptyMap,
     Put(EmptyMap, File("c", "_scores.json"), NotJson),
     Put(EmptyMap, File("c", "_aesthetic_results.json"),
         JsonDump([image |-> Name("c", ".jpg"), model_type |-> "aesthetic"])),
     Put(EmptyMap, SingleFile(b_jpg, "other"), JsonDump(SingleDoc(b_jpg, "other", D1)))}

InitStore ==
    /\ prog = "store"
    /\ pc = "idle"
    /\ exit_status = -1
    /\ output = <<>>
    /\ idx = 1
    /\ current_image = NoImage
    /\ current_model = NoWord
    /\ results \in BatchInputs
    /\ store \in ForeignFiles
    /\ artifacts = {}
    /\ image_files = {a_jpg, b_jpg}
    /\ model_type = "both"
    /\ skip_viz = FALSE
    /\ tool = "not run"
    /\ return_code = 0
    /\ script = <<>>
    /\ stdout_pipe = 0
    /\ stderr_pipe = 0
    /\ loaded = EmptyMap
    /\ viz_status = -1
    /\ last_write = {}
    /\ calls = 0

NextStore == SaveResults \/ PredictMain \/ LoadResults \/ VisualizeMain

SpecStore == InitStore /\ [][NextStore]_vars

\* ---------------------------------------------------------------- the tool

\* Return codes of the tool process: success, two failures, and killed by
\* signal 9 (subprocess gives the negated signal number).
ToolCodes == {0, 1, 2, -9}

\* What the tool can print: nothing; one image under one header; two images
\* under one header, the first with a short payload; a payload float() rejects;
\* a payload before any header.
ToolTexts ==
    {<<>>,
     <<Line("Aesthetic", NoImage, <<>>), Line(NoWord, a_jpg, <<>>),
       Line(NoWord, NoImage, FullPayload)>>,
     <<Line("technical", NoImage, <<>>), Line(NoWord, a_jpg, <<>>),
       Line(NoWord, NoImage, ShortPayload), Line(NoWord, b_jpg, <<>>),
       Line(NoWord, NoImage, FullPayload)>>,
     <<Line("Aesthetic", NoImage, <<>>), Line(NoWord, a_jpg, <<>>),
       Line(NoWord, NoImage, BadPayload)>>,
     <<Line(NoWord, NoImage, FullPayload)>>}

\* The results directory after the tool ran predict_script on none, one or two
\* images.
ToolStores(st) ==
    {st,
     PredictWrite(st, a_jpg, "aesthetic", D1),
     PredictWrite(PredictWrite(st, a_jpg, "aesthetic", D1), b_jpg, "technical", D2)}

\* The assess_images.sh process, from its start to its exit; or the script is
\* not there to be started.
ToolRun ==
    /\ pc = "assess"
    /\ tool = "not run"
    /\ \/ /\ tool' = "exited"
          /\ return_code' \in ToolCodes
          /\ output' \in ToolTexts
          /\ store' \in ToolStores(store)
       \/ /\ tool' = "not found"
          /\ UNCHANGED <<return_code, output, store>>
    /\ UNCHANGED <<prog, pc, exit_status, idx, current_image, current_model,
                   results, artifacts, image_files, model_type, skip_viz,
                   pipeVars, vizVars, histVars>>

\* The status sys.exit(n) gives the process.
ExitCode(n) == n % 256

\* ---------------------------------------------------------------- parse_results.main

\* subprocess.run(..., check=True) raises CalledProcessError.
CalledProcessError(rc) == rc # 0

\* run_assessment of parse_results: the tool has exited. CalledProcessError is
\* caught and ends the run with sys.exit(1); FileNotFoundError is not caught.
AssessCaptured ==
    /\ prog = "parse_results.main"
    /\ pc = "assess"
    /\ tool # "not run"
    /\ IF tool = "not found" \/ CalledProcessError(return_code)
       THEN pc' = "exited" /\ exit_status' = 1
       ELSE pc' = "parse" /\ UNCHANGED exit_status
    /\ UNCHANGED <<prog, parserVars, dirVars, model_type, toolVars, vizVars,
                   histVars>>

\* main, lines 99-103: no results ends the run with sys.exit(1).
MainCheckEmpty ==
    /\ prog = "parse_results.main"
    /\ pc = "parsed"
    /\ IF results = EmptyMap
       THEN pc' = "exited" /\ exit_status' = 1
       ELSE pc' = "save" /\ UNCHANGED exit_status
    /\ UNCHANGED <<prog, parserVars, dirVars, model_type, toolVars, vizVars,
                   histVars>>

\* main, line 104: save_results(results).
MainSave ==
    /\ prog = "parse_results.main"
    /\ pc = "save"
    /\ store' \in SaveOutcomes(store, results)
    /\ last_write' = Triples(results)
    /\ pc' = "visualize"
    /\ UNCHANGED <<prog, exit_status, parserVars, artifacts, image_files,
                   model_type, toolVars, vizVars, calls>>

\* main, lines 106-110: visualize_results.py is run and its status is not
\* looked at; main returns.
MainVisualize ==
    /\ prog = "parse_results.main"
    /\ pc = "visualize"
    /\ \E r \in VizRuns(store, artifacts, image_files, model_type) :
          /\ loaded' = r.loaded
          /\ artifacts' = r.artifacts
          /\ viz_status' = r.exit
    /\ pc' = "exited"
    /\ exit_status' = 0
    /\ UNCHANGED <<prog, parserVars, store, image_files, model_type, toolVars,
                   histVars>>

\* ---------------------------------------------------------------- run_assessment.main

\* main, lines 118-131: chmod, the setup script when --setup is given (its
\* failure ends the run with sys.exit(1)), the directories.
MainSetup ==
    /\ prog = "run_assessment.main"
    /\ pc = "start"
    /\ \E setup \in BOOLEAN, failed \in BOOLEAN :
          IF setup /\ failed
          THEN pc' = "exited" /\ exit_status' = 1
          ELSE pc' = "assess" /\ UNCHANGED exit_status
    /\ UNCHANGED <<prog, parserVars, dirVars, model_type, toolVars, vizVars,
                   histVars>>

\* A test that takes a return code below 0 for success.
Failed_above_zero(rc) == rc > 0

\* if return_code != 0
Failed(rc) == rc # 0

\* run_assessment of run_assessment: the output loop is over and the tool has
\* exited. A return code other than 0 ends the run with sys.exit(return_code),
\* FileNotFoundError with sys.exit(1).
AssessStreamed ==
    /\ prog = "run_assessment.main"
    /\ pc = "assess"
    /\ tool # "not run"
    /\ IF tool = "not found"
       THEN pc' = "exited" /\ exit_status' = 1
       ELSE IF Failed(return_code)
       THEN pc' = "exited" /\ exit_status' = ExitCode(return_code)
       ELSE pc' = "check" /\ UNCHANGED exit_status
    /\ UNCHANGED <<prog, parserVars, dirVars, model_type, toolVars, vizVars,
                   histVars>>

\* len(glob.glob(os.path.join(results_dir, "*.json"))) > 0
check_results(st) == DOMAIN st # {}

\* main, lines 136-145: without result files a warning is printed and main goes
\* on; with --skip-visualization main returns.
MainCheckResults ==
    /\ prog = "run_assessment.main"
    /\ pc = "check"
    /\ IF skip_viz
       THEN pc' = "exited" /\ exit_status' = 0
       ELSE pc' = "visualize" /\ UNCHANGED exit_status
    /\ UNCHANGED <<prog, parserVars, dirVars, model_type, toolVars, vizVars,
                   histVars>>

\* run_visualization: visualize_results.py is run with check=True, its failure
\* is caught and printed; main returns.
RunVisualization ==
    /\ prog = "run_assessment.main"
    /\ pc = "visualize"
    /\ \E r \in VizRuns(store, artifacts, image_files, model_type) :
          /\ loaded' = r.loaded
          /\ artifacts' = r.artifacts
          /\ viz_status' = r.exit
    /\ pc' = "exited"
    /\ exit_status' = 0
    /\ UNCHANGED <<prog, parserVars, store, image_files, model_type, toolVars,
                   histVars>>

\* ---------------------------------------------------------------- the coordinators

\* What an earlier run left in the results directory: nothing, or a record and
\* its figure.
PriorRuns ==
    {[store |-> EmptyMap, artifacts |-> {}],
     [store |-> PredictWrite(EmptyMap, b_jpg, "aesthetic", D2),
      artifacts |-> {ArtifactFile(b_jpg)}]}

InitPipeline ==
    /\ prog \in {"parse_results.main", "run_assessment.main"}
    /\ pc = IF prog = "parse_results.main" THEN "assess" ELSE "start"
    /\ exit_status = -1
    /\ output = <<>>
    /\ idx = 1
    /\ current_image = NoImage
    /\ current_model = NoWord
    /\ results = EmptyMap
    /\ \E prior \in PriorRuns : store = prior.store /\ artifacts = prior.artifacts
    /\ image_files = {a_jpg, b_jpg}
    /\ model_type \in {"aesthetic", "technical", "both"}
    /\ skip_viz \in IF prog = "parse_results.main" THEN {FALSE} ELSE BOOLEAN
    /\ tool = "not run"
    /\ return_code = 0
    /\ script = <<>>
    /\ stdout_pipe = 0
    /\ stderr_pipe = 0
    /\ loaded = EmptyMap
    /\ viz_status = -1
    /\ last_write = {}
    /\ calls = 0

NextPipeline ==
    \/ ToolRun
    \/ AssessCaptured
    \/ ParseLine
    \/ ParseReturn
    \/ MainCheckEmpty
    \/ MainSave
    \/ MainVisualize
    \/ MainSetup
    \/ AssessStreamed
    \/ MainCheckResults
    \/ RunVisualization

SpecPipeline == InitPipeline /\ [][NextPipeline]_vars

\* ---------------------------------------------------------------- store claims

\* A record load_results can decode: JSON with the three fields it reads.
Decodable(content) ==
    /\ content.valid
    /\ {"image", "model_type", "scores"} \subseteq DOMAIN content.data

\* A document of the batch writer: variant -> scores.
IsBatchDoc(content) ==
    content.valid /\ DOMAIN content.data \subseteq {"aesthetic", "technical"}

\* Every file of the directory was left by one of the two writers.
OnlyWritten == \A f \in DOMAIN store : \A x \in ForeignFiles : f \notin DOMAIN x

\* No two images of results are given one record file.
NoSharedFile ==
    \A i, j \in DOMAIN results : i # j => i.base # j.base

\* C2: after a write by save_results or by predict_script, load_results with
\* filter 'both' on the same directory returns a mapping that holds every
\* written image with the written variant and the written distribution (stated
\* for directories that hold the writers' files only and for results whose
\* images do not share a base name).
C2_RoundTrip ==
    (/\ prog = "store"
     /\ pc \in {"loaded", "raised"}
     /\ model_type = "both"
     /\ last_write # {}
     /\ OnlyWritten
     /\ NoSharedFile)
    => /\ pc = "loaded"
       /\ \A t \in last_write :
             /\ t[1] \in DOMAIN loaded
             /\ t[2] \in DOMAIN loaded[t[1]]
             /\ loaded[t[1]][t[2]] = t[3]

\* C4: load_results skips every record it cannot decode and returns a mapping
\* with every decodable record that matches the filter (stated for directories
\* without batch documents).
C4_CorruptSkipped ==
    (/\ prog = "store"
     /\ pc \in {"loaded", "raised"}
     /\ \A f \in DOMAIN store : ~IsBatchDoc(store[f]))
    => /\ pc = "loaded"
       /\ \A f \in DOMAIN store :
             (/\ Decodable(store[f])
              /\ model_type \in {"both", store[f].data.model_type})
             => /\ store[f].data.image \in DOMAIN loaded
                /\ store[f].data.model_type \in DOMAIN loaded[store[f].data.image]

\* C5: after a run of visualize_results.py no figure was written for a loaded
\* image that has neither aesthetic nor technical scores (and shares its base
\* name with no other loaded image), and a figure was written for every other
\* loaded image whose file exists.
C5_NoScoresSkipped ==
    (prog = "store" /\ pc = "exited" /\ exit_status = 0)
    => \A i \in DOMAIN loaded :
          IF DOMAIN loaded[i] \cap {"aesthetic", "technical"} = {}
          THEN (\A j \in DOMAIN loaded : j # i => j.base # i.base)
               => File(i.base, "_scores.png") \notin artifacts
          ELSE i \in image_files => File(i.base, "_scores.png") \in artifacts

\* C9: the mapping load_results returns under the filter 'aesthetic' or
\* 'technical' has, for every image in it, the filter's variant as its only
\* key, and every image in it has a record of that variant in the directory.
C9_Filtering ==
    (/\ prog = "store"
     /\ pc \in {"loaded", "exited"}
     /\ model_type \in {"aesthetic", "technical"})
    => \A i \in DOMAIN loaded :
          /\ DOMAIN loaded[i] = {model_type}
          /\ \E f \in DOMAIN store :
                /\ Decodable(store[f])
                /\ store[f].data.image = i
                /\ store[f].data.model_type = model_type

\* C9's case: under the filter 'aesthetic' an image with a technical record
\* alone is left out of the mapping and an image with an aesthetic record is in.
C9_Witness ==
    /\ prog = "store"
    /\ pc = "loaded"
    /\ model_type = "aesthetic"
    /\ SingleFile(b_jpg, "technical") \in DOMAIN store
    /\ SingleFile(a_jpg, "aesthetic") \in DOMAIN store
    /\ store[SingleFile(a_jpg, "aesthetic")].data.image = a_jpg
    /\ DOMAIN loaded = {a_jpg}

\* C10: after save_results every image of the result has a record of its own
\* that holds the image's variant -> distribution mapping.
C10_OneRecordPerImage ==
    (prog = "store" /\ pc = "saved")
    => /\ \A i \in DOMAIN results :
             \E f \in DOMAIN store : store[f] = [valid |-> TRUE, data |-> results[i]]
       /\ Cardinality({f \in DOMAIN store : IsBatchDoc(store[f])})
             = Cardinality(DOMAIN results)

\* ---------------------------------------------------------------- coordinator claims

\* The tool ran and returned 0.
ToolSucceeded == tool = "exited" /\ return_code = 0

\* The tool ran and returned another code.
ToolFailed == tool = "exited" /\ return_code # 0

\* The coordinator has found that there are no results: parse_results returned
\* the empty mapping, or check_results found no record in the directory.
EmptyDetected ==
    IF prog = "parse_results.main"
    THEN pc \in {"save", "visualize", "exited"} /\ results = EmptyMap
    ELSE pc \in {"visualize", "exited"} /\ ~check_results(store)

\* C3: in both coordinators, once the tool has succeeded and no results were
\* found, the run has ended with a status other than 0, and neither
\* save_results nor visualize_results.py was started.
C3_EmptyIsFatal ==
    (/\ prog \in {"parse_results.main", "run_assessment.main"}
     /\ ToolSucceeded
     /\ EmptyDetected)
    => /\ pc = "exited"
       /\ exit_status # 0
       /\ viz_status = -1
       /\ last_write = {}

\* C6: once the tool has returned a code other than 0, the coordinator's next
\* step ends the run with a status other than 0 and changes no file of the
\* results directory, nothing was parsed, saved or rendered in the run, and
\* nothing happens after.
C6_FailureAborts ==
    /\ [](ToolFailed =>
             /\ pc \in {"assess", "exited"}
             /\ pc = "exited" => exit_status # 0
             /\ idx = 1
             /\ results = EmptyMap
             /\ viz_status = -1
             /\ last_write = {})
    /\ [][ToolFailed =>
             /\ pc' = "exited"
             /\ exit_status' # 0
             /\ UNCHANGED <<store, artifacts>>]_vars

\* C6's case: the tool was killed by a signal after an earlier run had left a
\* record and a figure, and the streaming coordinator has ended.
C6_Witness ==
    /\ prog = "run_assessment.main"
    /\ ToolFailed
    /\ return_code < 0
    /\ pc = "exited"
    /\ exit_status > 0
    /\ SingleFile(b_jpg, "aesthetic") \in DOMAIN store
    /\ ArtifactFile(b_jpg) \in artifacts

\* ---------------------------------------------------------------- the output loop

\* What the tool writes, in order, before it exits: lines to its standard
\* output and lines to its standard error.
Scripts == UNION {[1..n -> {"out", "err"}] : n \in 0..MaxToolWrites}

\* The tool writes its next line. write() on a pipe that is full blocks until
\* the reader has made room.
ToolWrite ==
    /\ tool = "running"
    /\ script # <<>>
    /\ IF Head(script) = "out"
       THEN /\ stdout_pipe < PipeCapacity
            /\ stdout_pipe' = stdout_pipe + 1
            /\ UNCHANGED stderr_pipe
       ELSE /\ stderr_pipe < PipeCapacity
            /\ stderr_pipe' = stderr_pipe + 1
            /\ UNCHANGED stdout_pipe
    /\ script' = Tail(script)
    /\ UNCHANGED <<prog, pc, exit_status, parserVars, dirVars, model_type,
                   skip_viz, tool, return_code, vizVars, histVars>>

\* The tool has written everything: it exits, which closes its ends of the
\* pipes.
ToolExit ==
    /\ tool = "running"
    /\ script = <<>>
    /\ tool' = "exited"
    /\ return_code' \in ToolCodes
    /\ UNCHANGED <<prog, pc, exit_status, parserVars, dirVars, model_type,
                   skip_viz, pipeVars, vizVars, histVars>>

\* One iteration of the while True loop, lines 57-62: readline() returns a line
\* of the standard output, which is printed, or returns '' at the end of the
\* file, which the pipe reaches when it is empty and the tool has exited;
\* poll() is then not None and the loop is left. With an empty pipe and a
\* running tool readline() blocks. The pipe of the standard error is not read
\* inside the loop.
ReadLine ==
    /\ prog = "run_assessment.main"
    /\ pc = "stream"
    /\ IF stdout_pipe > 0
       THEN /\ stdout_pipe' = stdout_pipe - 1
            /\ UNCHANGED pc
       ELSE /\ tool = "exited"
            /\ pc' = "assess"
            /\ UNCHANGED stdout_pipe
    /\ UNCHANGED <<prog, exit_status, parserVars, dirVars, model_type, skip_viz,
                   tool, return_code, script, stderr_pipe, vizVars, histVars>>

\* After Popen: the tool runs, the coordinator enters the loop.
InitStream ==
    /\ prog = "run_assessment.main"
    /\ pc = "stream"
    /\ exit_status = -1
    /\ output = <<>>
    /\ idx = 1
    /\ current_image = NoImage
    /\ current_model = NoWord
    /\ results = EmptyMap
    /\ store = EmptyMap
    /\ artifacts = {}
    /\ image_files = {a_jpg, b_jpg}
    /\ model_type = "both"
    /\ skip_viz = FALSE
    /\ tool = "running"
    /\ return_code = 0
    /\ script \in Scripts
    /\ stdout_pipe = 0
    /\ stderr_pipe = 0
    /\ loaded = EmptyMap
    /\ viz_status = -1
    /\ last_write = {}
    /\ calls = 0

NextStream == ToolWrite \/ ToolExit \/ ReadLine \/ AssessStreamed

\* The operating system runs a process that can take a step.
SpecStream ==
    /\ InitStream
    /\ [][NextStream]_vars
    /\ WF_vars(ToolWrite \/ ToolExit)
    /\ WF_vars(ReadLine \/ AssessStreamed)

\* ---------------------------------------------------------------- output loop claims

\* C11: while the coordinator is in the output loop, the tool or the
\* coordinator can take a step: the two are never both blocked, so that the
\* loop reaches the check of the return code after the tool's last write.
C11_LoopTerminates ==
    (prog = "run_assessment.main" /\ pc = "stream") => ENABLED NextStream

====
